---- MODULE Spec2Model ----
(***************************************************************************)
(* Model of the ingestion-and-storage core of the alert service:           *)
(*   storage/sqlite_manager.py  the store (bars, events, kv_state, rules,   *)
(*                              token_registry)                             *)
(*   connectors/dex_api.py      the adapter registry and the ingestion      *)
(*                              cycle sync_registered_tokens                *)
(*                                                                         *)
(* A table is the set of its rows; a row is a function from the table's     *)
(* columns to values.  SQL NULL / Python None is NullInt in an integer      *)
(* column and NullStr in a text column.  A payload (a Python dict) is a     *)
(* function whose domain is the set of keys it carries.                     *)
(* The OHLCV columns (open_ts, open, high, low, close, volume_*, trades,    *)
(* notional_usd) are all treated alike by the code; `close` stands for them.*)
(***************************************************************************)
EXTENDS Integers, Sequences, FiniteSets, TLC

VARIABLES
    bars,        \* [table name -> set of rows] : bars_1m, bars_5m, bars_15m
    written,     \* history: <<table, identity>> pairs of every successful upsert_bar
    last,        \* history: the last store call: its name, table, argument and effect
    events,      \* set of rows of table events
    rules,       \* set of rows of table price_alert_rules
    tokens,      \* set of rows of table token_registry
    kv,          \* set of rows of table kv_state
    lastSet,     \* history: [key -> the arguments of the last successful set_kv on it]
    result,      \* how the last store call ended: "ok" or the exception raised
    ret,         \* what the last store query returned (a sequence of rows)
    _ADAPTERS,   \* [exchange name -> adapter] : the adapter registry
    registered,  \* history: [name -> the adapter given by the last
                 \* register_adapter call on it]
    pc,          \* where sync_registered_tokens stands: "idle", "loop" (at the
                 \* head of `for token in tokens`), "fetching" (awaiting the
                 \* adapter), "bars" (in `for bar in bars`), "returned",
                 \* "raised", "cancelled"
    listing,     \* its local `tokens`: the markets listed for the cycle
    at,          \* the position of `token` in listing
    adapter,     \* its local `adapter`, "none" while unbound
    fetched,     \* its local `bars`: what the adapter returned for token
    barAt,       \* the position of `bar` in fetched
    inserted,    \* its local `inserted`
    exc,         \* the exception that has left it, "none" when none has
    fetchLog,    \* history: per market visited in the cycle, what its lookup and
                 \* fetch gave
    upserted,    \* history: the payloads upserted by the cycle, in order
    _connection_lock,  \* the caller that holds the lock, "free" when none does
    threadPc,    \* [caller -> where its store operation stands]: "idle",
                 \* "acquiring" (at `with _connection_lock`), "connecting" (at
                 \* _connect()), "executing" (at conn.execute), "committing" (at
                 \* conn.commit()), "done" (it has returned or raised)
    threadOp,    \* [caller -> the store operation it runs, with its arguments]
    threadExc,   \* [caller -> how its operation ended]: "none" while it runs,
                 \* "ok", or the exception raised
    conn         \* [caller -> the connection its operation opened]: "none",
                 \* "open" or "closed"

storeVars == <<bars, written, last, events, rules, tokens, kv, lastSet, result, ret>>

syncVars ==
    <<_ADAPTERS, registered, pc, listing, at, adapter, fetched, barAt, inserted, exc,
      fetchLog, upserted>>

lockVars == <<_connection_lock, threadPc, threadOp, threadExc, conn>>

vars == <<storeVars, syncVars, lockVars>>

----------------------------------------------------------------------------
(* Values *)

NullInt == -1
NullStr == "NULL"

\* at most MaxRows rows are stored over all bar tables (capacity of the store)
MaxRows == 2

_ALLOWED_BAR_TABLES == {"bars_1m", "bars_5m", "bars_15m"}

BarIdentity == {"source", "exchange", "chain", "symbol", "close_ts"}
BarColumns == BarIdentity \cup {"close", "bid", "base", "quote"}
IntColumns == {"close_ts", "close", "bid", "updated_at", "level", "enabled", "ts"}

Null(c) == IF c \in IntColumns THEN NullInt ELSE NullStr

Restrict(f, S) == [c \in S |-> f[c]]

\* dict "in" / len
Has(payload, c) == c \in DOMAIN payload

----------------------------------------------------------------------------
(* The schema: the tables' columns and constraints.  The DDL is not part of *)
(* the sources at hand; it is taken from the data model: the identity of a  *)
(* record is unique and required.                                           *)

UniqueKey(table) ==
    CASE table \in _ALLOWED_BAR_TABLES -> BarIdentity
      [] table = "kv_state" -> {"key"}
      [] OTHER -> {"id"}

RequiredColumns(table) == UniqueKey(table)

ExistingTables ==
    _ALLOWED_BAR_TABLES \cup {"events", "price_alert_rules", "token_registry", "kv_state"}

TableColumns(table) ==
    CASE table \in _ALLOWED_BAR_TABLES -> BarColumns
      [] table = "events" -> {"id", "symbol", "ts"}
      [] table = "price_alert_rules" -> {"id", "symbol", "level", "enabled"}
      [] table = "token_registry" ->
            {"id", "symbol", "exchange", "chain", "base", "quote", "enabled"}
      [] table = "kv_state" -> {"key", "value", "updated_at"}

----------------------------------------------------------------------------
(* _build_upsert_sql: the statement as a record.  kind "ValueError" stands  *)
(* for the raise on an empty payload.                                       *)

\* faulty variant: the skip set is not taken out of the update columns
update_columns_ignoring_skip(payload, conflict_columns, skip_update) ==
    DOMAIN payload \ conflict_columns

\* update_columns = [col for col in columns if col not in conflict_set and col not in skip]
update_columns(payload, conflict_columns, skip_update) ==
    (DOMAIN payload \ conflict_columns) \ skip_update

_build_upsert_sql(table, payload, conflict_columns, skip_update) ==
    IF DOMAIN payload = {}
    THEN [kind |-> "ValueError"]
    ELSE [kind |-> IF update_columns(payload, conflict_columns, skip_update) # {}
                   THEN "DO UPDATE" ELSE "DO NOTHING",
          table |-> table,
          params |-> payload,
          conflict |-> conflict_columns,
          update |-> update_columns(payload, conflict_columns, skip_update)]

----------------------------------------------------------------------------
(* conn.execute(sql, params) on INSERT ... ON CONFLICT(...) DO ...          *)

\* the row the INSERT proposes: named columns from params, the others NULL
Excluded(sql) ==
    [c \in TableColumns(sql.table) |->
        IF c \in DOMAIN sql.params THEN sql.params[c] ELSE Null(c)]

\* the stored rows that collide with the proposed row on the conflict target
\* (a NULL equals nothing, so a row that lacks a conflict column collides
\* with none)
Conflicting(rows, sql) ==
    IF sql.conflict \subseteq DOMAIN sql.params
    THEN {r \in rows : \A c \in sql.conflict : r[c] = sql.params[c]}
    ELSE {}

\* a statement the schema refuses makes execute raise (OperationalError,
\* IntegrityError): no such table, a conflict target that is not the table's
\* unique key, a NULL in a required column
ViolatesSchema(sql) ==
    \/ sql.table \notin ExistingTables
    \/ sql.conflict # UniqueKey(sql.table)
    \/ \E c \in RequiredColumns(sql.table) : Excluded(sql)[c] = Null(c)

\* faulty variant: the stored row is replaced by the proposed one (INSERT OR REPLACE)
Merged_replacing_row(r, sql) == Excluded(sql)

\* DO UPDATE SET col = excluded.col for the update columns
Merged(r, sql) ==
    [c \in DOMAIN r |-> IF c \in sql.update THEN sql.params[c] ELSE r[c]]

\* faulty variant: a plain INSERT, with no conflict clause and no unique key
Executed_plain_insert(rows, sql) == rows \cup {Excluded(sql)}

\* the table after a successful execute + commit
Executed(rows, sql) ==
    IF Conflicting(rows, sql) = {}
    THEN rows \cup {Excluded(sql)}
    ELSE IF sql.kind = "DO UPDATE"
         THEN (rows \ Conflicting(rows, sql))
                \cup {Merged(r, sql) : r \in Conflicting(rows, sql)}
         ELSE rows

----------------------------------------------------------------------------
(* upsert_bar(table, bar).  io is the outcome of the database I/O: TRUE, or *)
(* FALSE when opening, executing or committing fails for an external reason *)
(* (disk, permissions, locked file); the transaction is then not applied.   *)

RowCount ==
    Cardinality(bars["bars_1m"]) + Cardinality(bars["bars_5m"])
        + Cardinality(bars["bars_15m"])

IdentityOf(bar) == Restrict(bar, BarIdentity)

HasIdentity(bar) == BarIdentity \subseteq DOMAIN bar

SameIdentity(r, bar) == \A c \in BarIdentity : r[c] = bar[c]

\* the table already holds the payload's values for its identity (bid aside,
\* which a stored row keeps from its first insertion)
AlreadyStored(rows, bar) ==
    /\ HasIdentity(bar)
    /\ \E r \in rows : \A c \in DOMAIN bar \ {"bid"} : r[c] = bar[c]

\* history only: whether the statement inserts a row, rewrites the stored
\* values or merges new ones into the stored row
HowWritten(rows, sql) ==
    IF Conflicting(rows, sql) = {} THEN "inserted"
    ELSE IF AlreadyStored(rows, sql.params) THEN "rewritten"
    ELSE "merged"

\* history only: a call that has failed is recorded without its argument
Called(op, table, arg, how) == [op |-> op, table |-> table, arg |-> arg, how |-> how]

NoCall == Called("none", "", <<>>, "nothing")

Raise(error, op, table) ==
    /\ result' = error
    /\ ret' = <<>>
    /\ last' = Called(op, table, <<>>, "nothing")

\* faulty variant: the table name is not checked
Unsupported_unchecked(table) == FALSE

\* if table not in _ALLOWED_BAR_TABLES: raise ValueError
Unsupported(table) == table \notin _ALLOWED_BAR_TABLES

\* faulty variant: bid is not in the skip set
upsert_bar_sql_without_skip(table, bar) ==
    _build_upsert_sql(table, bar, BarIdentity, {})

upsert_bar_sql(table, bar) ==
    _build_upsert_sql(table, bar, BarIdentity, {"bid"})

upsert_bar(table, bar, io) ==
    /\ UNCHANGED <<events, rules, tokens, kv, lastSet>>
    /\ IF Unsupported(table) \/ DOMAIN bar = {}
       THEN Raise("ValueError", "upsert_bar", table) /\ UNCHANGED <<bars, written>>
       ELSE LET sql == upsert_bar_sql(table, bar) IN
            IF sql.kind = "ValueError"
            THEN Raise("ValueError", "upsert_bar", table) /\ UNCHANGED <<bars, written>>
            ELSE IF ~io \/ ViolatesSchema(sql)
            THEN Raise("StoreError", "upsert_bar", table) /\ UNCHANGED <<bars, written>>
            ELSE /\ bars' = [bars EXCEPT ![table] = Executed(@, sql)]
                 /\ written' = written \cup {<<table, IdentityOf(bar)>>}
                 /\ last' = Called("upsert_bar", table, bar, HowWritten(bars[table], sql))
                 /\ result' = "ok"
                 /\ ret' = <<>>

----------------------------------------------------------------------------
(* Callers' inputs *)

BidValues == {5, 6}
PriceValues == {1, 2}

\* bar identities that differ in close_ts, and in exchange and symbol
FirstId ==
    [source |-> "dex", exchange |-> "pancake", chain |-> "bsc", symbol |-> "A", close_ts |-> 0]

BarIds ==
    {FirstId,
     [source |-> "dex", exchange |-> "pancake", chain |-> "bsc", symbol |-> "A", close_ts |-> 1],
     [source |-> "dex", exchange |-> "uni", chain |-> "bsc", symbol |-> "B", close_ts |-> 0]}

\* dict merge {**a, **b}: b's keys win
Merge(a, b) ==
    [c \in DOMAIN a \cup DOMAIN b |-> IF c \in DOMAIN b THEN b[c] ELSE a[c]]

EmptyPayload == [c \in {} |-> 0]

\* the OHLCV part of a payload: close and bid, each optional
Quotes ==
    {EmptyPayload}
        \cup {[close |-> p] : p \in PriceValues}
        \cup {[bid |-> b] : b \in BidValues}
        \cup {[close |-> p, bid |-> b] : p \in PriceValues, b \in BidValues}

\* a bar with its identity: with or without close and bid for the two bars of
\* symbol A, with a close for the bar of symbol B
CompleteBars ==
    {Merge(id, q) : id \in {b \in BarIds : b["symbol"] = "A"}, q \in Quotes}
        \cup {Merge(id, [close |-> 1]) : id \in {b \in BarIds : b["symbol"] = "B"}}

\* a bar that lacks one identity field
IncompleteBars ==
    {Restrict(Merge(FirstId, [close |-> 1]), (BarIdentity \ {c}) \cup {"close"}) :
        c \in BarIdentity}

InvalidTables == {"bars_1h", "1m"}

\* the calls made on the bar store: every complete bar on bars_1m, two bars
\* of one identity on bars_5m, calls on table names outside the allow-set,
\* a call whose database I/O fails, and malformed payloads
BarCalls ==
    ({"bars_1m"} \X CompleteBars \X {TRUE})
        \cup ({"bars_5m"} \X {Merge(FirstId, [close |-> 1]),
                              Merge(FirstId, [close |-> 2, bid |-> 6])} \X {TRUE})
        \cup (InvalidTables \X {Merge(FirstId, [close |-> 2, bid |-> 6])} \X {TRUE})
        \cup ({"bars_1m"} \X {Merge(FirstId, [close |-> 2, bid |-> 6])} \X {FALSE})
        \cup ({"bars_1m"} \X (IncompleteBars \cup {EmptyPayload}) \X {TRUE})
        \cup ({"bars_1h"} \X {EmptyPayload} \X {TRUE})

----------------------------------------------------------------------------
(* Specification of the bar store under upsert_bar *)

\* the threads that call the store
Callers == {"c1", "c2"}

\* history only: the operation a caller runs
Operation(op, table, arg) == [op |-> op, table |-> table, arg |-> arg]

NoOperation == Operation("none", "", <<>>)

Init ==
    /\ bars = [t \in _ALLOWED_BAR_TABLES |-> {}]
    /\ written = {}
    /\ last = NoCall
    /\ events = {}
    /\ rules = {}
    /\ tokens = {}
    /\ kv = {}
    /\ lastSet = <<>>
    /\ result = "none"
    /\ ret = <<>>
    /\ _ADAPTERS = [name \in {"pancake"} |-> "PancakeAdapter"]
    /\ registered = <<>>
    /\ pc = "idle"
    /\ listing = <<>>
    /\ at = 1
    /\ adapter = "none"
    /\ fetched = <<>>
    /\ barAt = 1
    /\ inserted = 0
    /\ exc = "none"
    /\ fetchLog = <<>>
    /\ upserted = <<>>
    /\ _connection_lock = "free"
    /\ threadPc = [caller \in Callers |-> "idle"]
    /\ threadOp = [caller \in Callers |-> NoOperation]
    /\ threadExc = [caller \in Callers |-> "none"]
    /\ conn = [caller \in Callers |-> "none"]

\* the store has room for the bar: it holds fewer than MaxRows rows, or the
\* bar's identity is stored already
Room(table, bar) ==
    IF table \in _ALLOWED_BAR_TABLES /\ HasIdentity(bar)
    THEN RowCount < MaxRows \/ \E r \in bars[table] : SameIdentity(r, bar)
    ELSE TRUE

UpsertBar ==
    \E call \in BarCalls :
        Room(call[1], call[2]) /\ upsert_bar(call[1], call[2], call[3])
            /\ UNCHANGED <<syncVars, lockVars>>

NextBars == UpsertBar

SpecBars == Init /\ [][NextBars]_vars

----------------------------------------------------------------------------
(* Claims on upsert_bar *)

IdentitiesIn(rows) == {IdentityOf(r) : r \in rows}

WrittenTo(table) == {w[2] : w \in {x \in written : x[1] = table}}

\* C2 Merge preserves the skip field: when a successful upsert_bar meets a
\* stored row of the same identity whose bid is set, the row keeps that bid
\* (whether the payload carries no bid, the same or another one) and holds
\* the payload's value in every other non-identity column the payload supplies.
C2_MergePreservesBid ==
    [][(last'.op = "upsert_bar" /\ last'.how \in {"merged", "rewritten"})
        => \A r \in bars[last'.table] :
              (SameIdentity(r, last'.arg) /\ r["bid"] # NullInt)
              => /\ \E q \in bars'[last'.table] : SameIdentity(q, last'.arg)
                 /\ \A q \in bars'[last'.table] :
                       SameIdentity(q, last'.arg)
                       => /\ q["bid"] = r["bid"]
                          /\ \A c \in DOMAIN last'.arg \ (BarIdentity \cup {"bid"}) :
                                q[c] = last'.arg[c]
      ]_vars

\* a merge that carried close 2 and bid 6 into a row that keeps bid 5
C2_Witness ==
    /\ last.op = "upsert_bar" /\ last.how = "merged"
    /\ result = "ok"
    /\ "bid" \in DOMAIN last.arg /\ last.arg["bid"] = 6
    /\ "close" \in DOMAIN last.arg /\ last.arg["close"] = 2
    /\ \E r \in bars[last.table] :
          SameIdentity(r, last.arg) /\ r["bid"] = 5 /\ r["close"] = 2

\* C3 Bar uniqueness: a timeframe table holds exactly one row per identity
\* written by a successful upsert_bar: no identity twice, no identity missing,
\* as many rows as distinct identities written.
C3_BarUniqueness ==
    \A t \in _ALLOWED_BAR_TABLES :
        /\ \A r1 \in bars[t] : \A r2 \in bars[t] :
              IdentityOf(r1) = IdentityOf(r2) => r1 = r2
        /\ IdentitiesIn(bars[t]) = WrittenTo(t)
        /\ Cardinality(bars[t]) = Cardinality(WrittenTo(t))

\* two identities stored in bars_1m, the last write having merged into one
C3_Witness ==
    /\ Cardinality(WrittenTo("bars_1m")) = 2
    /\ last.op = "upsert_bar" /\ last.how = "merged"
    /\ result = "ok"

\* C7 Missing identity is a validation error: upsert_bar with a non-empty
\* payload that lacks an identity field raises ValueError and changes no table.
C7_MissingIdentityRejected ==
    [][\A call \in BarCalls :
          (/\ DOMAIN call[2] # {}
           /\ ~HasIdentity(call[2])
           /\ upsert_bar(call[1], call[2], call[3]))
          => (result' = "ValueError" /\ bars' = bars)
      ]_vars

\* C8 Idempotent upsert: a successful upsert_bar of a payload whose values the
\* table already holds for that identity (as it does right after an upsert of
\* the same payload) leaves every table as it was: one row for the identity,
\* every column unchanged.
C8_IdempotentUpsert ==
    [][(/\ last'.op = "upsert_bar"
        /\ result' = "ok"
        /\ AlreadyStored(bars[last'.table], last'.arg))
        => bars' = bars
      ]_vars

C8_Witness ==
    /\ last.op = "upsert_bar" /\ last.how = "rewritten"
    /\ result = "ok"

\* C20 bid is first-write-wins: a successful upsert_bar on an identity that is
\* stored already leaves the row's bid as it was, unset included, whatever bid
\* the payload carries, and leaves every column the payload omits as it was;
\* the rows of the other identities and the other tables stay as they were.
C20_BidFirstWriteWins ==
    [][(last'.op = "upsert_bar" /\ result' = "ok")
        => /\ \A r \in bars[last'.table] :
                 IF SameIdentity(r, last'.arg)
                 THEN \E q \in bars'[last'.table] :
                         /\ SameIdentity(q, last'.arg)
                         /\ q["bid"] = r["bid"]
                         /\ \A c \in BarColumns \ DOMAIN last'.arg : q[c] = r[c]
                 ELSE r \in bars'[last'.table]
           /\ \A t \in _ALLOWED_BAR_TABLES \ {last'.table} : bars'[t] = bars[t]
      ]_vars

\* a row first written without bid and with close 1 has met an upsert that
\* carried bid 6 and no close: its bid is still unset and its close still 1
C20_Witness ==
    /\ last.op = "upsert_bar" /\ last.how # "inserted"
    /\ result = "ok"
    /\ "bid" \in DOMAIN last.arg /\ last.arg["bid"] = 6
    /\ "close" \notin DOMAIN last.arg
    /\ \E r \in bars[last.table] :
          SameIdentity(r, last.arg) /\ r["bid"] = NullInt /\ r["close"] = 1

----------------------------------------------------------------------------
(* fetch_bars(table, symbol, since_ts, limit).  An Optional argument is the *)
(* empty sequence (None) or a one-element sequence (a value).               *)

None == <<>>
Some(v) == <<v>>

\* SELECT * FROM table WHERE symbol = ? [AND close_ts >= ?]
Selected(rows, symbol, since_ts) ==
    {r \in rows :
        /\ r["symbol"] = symbol
        /\ since_ts # None => r["close_ts"] >= since_ts[1]}

NonDecreasing(s) ==
    \A i \in 1 .. Len(s) - 1 : s[i]["close_ts"] <= s[i + 1]["close_ts"]

\* ORDER BY close_ts ASC: the rows, each once, non-decreasing in close_ts;
\* the order among rows of equal close_ts is the engine's choice
Ordered(rows) ==
    {s \in [1 .. Cardinality(rows) -> rows] :
        /\ \A i \in DOMAIN s : \A j \in DOMAIN s : i # j => s[i] # s[j]
        /\ NonDecreasing(s)}

\* faulty variant: `if limit:` for `if limit is not None:`, so that 0 is no limit
Limited_when_truthy(s, limit) ==
    IF limit = None THEN s
    ELSE IF limit[1] <= 0 \/ limit[1] >= Len(s) THEN s
    ELSE SubSeq(s, 1, limit[1])

\* LIMIT ?: the first `limit` rows; a negative LIMIT is no limit in SQLite
Limited(s, limit) ==
    IF limit = None THEN s
    ELSE IF limit[1] < 0 \/ limit[1] >= Len(s) THEN s
    ELSE SubSeq(s, 1, limit[1])

fetch_bars(table, symbol, since_ts, limit, io) ==
    /\ UNCHANGED <<bars, written, events, rules, tokens, kv, lastSet>>
    /\ IF Unsupported(table)
       THEN Raise("ValueError", "fetch_bars", table)
       ELSE IF ~io \/ table \notin ExistingTables
       THEN Raise("StoreError", "fetch_bars", table)
       ELSE \E s \in Ordered(Selected(bars[table], symbol, since_ts)) :
                /\ ret' = Limited(s, limit)
                /\ result' = "ok"
                /\ last' = Called("fetch_bars", table,
                                  [symbol |-> symbol, since_ts |-> since_ts, limit |-> limit],
                                  "read")

----------------------------------------------------------------------------
(* Specification of the bar store under upsert_bar and fetch_bars *)

\* bars of two symbols, two of them equal in close_ts
QueryBars ==
    {Merge(id, [close |-> p]) :
        id \in BarIds \cup {[source |-> "dex", exchange |-> "uni", chain |-> "bsc",
                             symbol |-> "A", close_ts |-> 0]},
        p \in {1}}

QueryTables == {"bars_1m", "bars_5m", "bars_1h", "1h"}
SinceArgs == {None, Some(0), Some(1)}
LimitArgs == {None, Some(-1), Some(0), Some(1), Some(2)}

UpsertQueryBar ==
    \E table \in {"bars_1m", "bars_1h"}, bar \in QueryBars :
        Room(table, bar) /\ upsert_bar(table, bar, TRUE) /\ UNCHANGED <<syncVars, lockVars>>

FetchBars ==
    \E table \in QueryTables, symbol \in {"A", "B"},
       since_ts \in SinceArgs, limit \in LimitArgs, io \in BOOLEAN :
        fetch_bars(table, symbol, since_ts, limit, io) /\ UNCHANGED <<syncVars, lockVars>>

NextQuery == UpsertQueryBar \/ FetchBars

SpecQuery == Init /\ [][NextQuery]_vars

----------------------------------------------------------------------------
(* Claims on fetch_bars and on the validation boundary *)

\* the timeframe tables of the data model: 1m, 5m, 15m
TimeframeTables == {"bars_1m", "bars_5m", "bars_15m"}

\* C6 Validation boundary: upsert_bar and fetch_bars called with a table
\* outside the allow-set of the 1m, 5m and 15m tables raise ValueError,
\* return nothing, and leave every table as it was.
C6_ValidationBoundary ==
    [][(last'.op \in {"upsert_bar", "fetch_bars"} /\ last'.table \notin TimeframeTables)
        => /\ result' = "ValueError"
           /\ ret' = <<>>
           /\ UNCHANGED <<bars, events, rules, tokens, kv>>
      ]_vars

\* both calls have been refused on "1h"-like names while a table held rows
C6_Witness ==
    /\ last.op = "fetch_bars"
    /\ last.table = "1h"
    /\ result = "ValueError"
    /\ bars["bars_1m"] # {}

\* the rows fetch_bars is asked for
Asked == Selected(bars[last.table], last.arg["symbol"], last.arg["since_ts"])

Range(s) == {s[i] : i \in DOMAIN s}

\* ret holds rows of `rows`, each once, non-decreasing in close_ts, and no
\* row left out closes before a row returned
FirstOf(rows) ==
    /\ Range(ret) \subseteq rows
    /\ Cardinality(Range(ret)) = Len(ret)
    /\ NonDecreasing(ret)
    /\ \A r \in rows \ Range(ret) : \A i \in DOMAIN ret :
          ret[i]["close_ts"] <= r["close_ts"]

Min(a, b) == IF a <= b THEN a ELSE b

\* C9 as claimed: fetch_bars returns the rows of the symbol (from since_ts on
\* when given) in non-decreasing close_ts order and, when limit is given, at
\* most limit rows: the first limit rows of that order (no row at all when
\* limit is below 1).
C9_FetchBarsAsClaimed ==
    (last.op = "fetch_bars" /\ result = "ok")
    => /\ FirstOf(Asked)
       /\ last.arg["limit"] = None => Range(ret) = Asked
       /\ last.arg["limit"] # None
            => /\ Len(ret) <= last.arg["limit"][1] \/ Len(ret) = 0
               /\ Len(ret) = Min(last.arg["limit"][1], Cardinality(Asked))
                    \/ (last.arg["limit"][1] < 0 /\ Len(ret) = 0)

\* C9 amended: as claimed for a limit >= 0; a negative limit caps nothing and
\* all the rows asked for are returned.
C9_FetchBarsShape ==
    (last.op = "fetch_bars" /\ result = "ok")
    => /\ FirstOf(Asked)
       /\ (last.arg["limit"] = None \/ last.arg["limit"][1] < 0) => Range(ret) = Asked
       /\ (last.arg["limit"] # None /\ last.arg["limit"][1] >= 0)
            => Len(ret) = Min(last.arg["limit"][1], Cardinality(Asked))

\* two rows asked for with since_ts = 0, the first of them returned under limit 1
C9_Witness ==
    /\ last.op = "fetch_bars" /\ result = "ok"
    /\ last.arg["since_ts"] = Some(0)
    /\ last.arg["limit"] = Some(1)
    /\ Cardinality(Asked) = 2
    /\ Len(ret) = 1
    /\ \E r \in Asked : r["close_ts"] > ret[1]["close_ts"]

----------------------------------------------------------------------------
(* insert_event(event) *)

insert_event_sql(event) == _build_upsert_sql("events", event, {"id"}, {})

insert_event(event, io) ==
    /\ UNCHANGED <<bars, written, rules, tokens, kv, lastSet>>
    /\ IF ~Has(event, "id")
       THEN Raise("ValueError", "insert_event", "events") /\ UNCHANGED events
       ELSE LET sql == insert_event_sql(event) IN
            IF sql.kind = "ValueError"
            THEN Raise("ValueError", "insert_event", "events") /\ UNCHANGED events
            ELSE IF ~io \/ ViolatesSchema(sql)
            THEN Raise("StoreError", "insert_event", "events") /\ UNCHANGED events
            ELSE /\ events' = Executed(events, sql)
                 /\ result' = "ok"
                 /\ ret' = <<>>
                 /\ last' = Called("insert_event", "events", event,
                                   HowWritten(events, sql))

\* events of two ids, with or without symbol and ts, and events without id
EventPayloads ==
    {Restrict(e, cols) :
        e \in [id : {"e1", "e2"}, symbol : {"A", "B"}, ts : {1, 2}],
        cols \in {{"id"}, {"id", "symbol"}, {"id", "ts"}, {"id", "symbol", "ts"}, {"symbol"}}}
      \cup {EmptyPayload}

InsertEvent ==
    \E event \in EventPayloads, io \in BOOLEAN :
        insert_event(event, io) /\ UNCHANGED <<syncVars, lockVars>>

NextEvents == InsertEvent

SpecEvents == Init /\ [][NextEvents]_vars

\* C1 Event immutability: an insert_event whose id is already stored raises
\* nothing and leaves every column of every stored event as it was.
C1_EventImmutable ==
    [][(last'.op = "insert_event" /\ Has(last'.arg, "id")
            /\ \E r \in events : r["id"] = last'.arg["id"])
        => (result' = "ok" /\ events' = events)
      ]_vars

----------------------------------------------------------------------------
(* set_kv(key, value, updated_at) and get_kv(key) *)

\* faulty variant: ON CONFLICT(key) DO NOTHING, the first write wins
set_kv_sql_do_nothing(key, value, updated_at) ==
    [kind |-> "DO NOTHING",
     table |-> "kv_state",
     params |-> [key |-> key, value |-> value, updated_at |-> updated_at],
     conflict |-> {"key"},
     update |-> {}]

\* INSERT INTO kv_state (key, value, updated_at) VALUES (?, ?, ?)
\* ON CONFLICT(key) DO UPDATE SET value=excluded.value, updated_at=excluded.updated_at
set_kv_sql(key, value, updated_at) ==
    [kind |-> "DO UPDATE",
     table |-> "kv_state",
     params |-> [key |-> key, value |-> value, updated_at |-> updated_at],
     conflict |-> {"key"},
     update |-> {"value", "updated_at"}]

set_kv(key, value, updated_at, io) ==
    /\ UNCHANGED <<bars, written, events, rules, tokens>>
    /\ LET sql == set_kv_sql(key, value, updated_at) IN
       IF ~io \/ ViolatesSchema(sql)
       THEN Raise("StoreError", "set_kv", "kv_state") /\ UNCHANGED <<kv, lastSet>>
       ELSE /\ kv' = Executed(kv, sql)
            /\ lastSet' = [k \in DOMAIN lastSet \cup {key} |->
                              IF k = key
                              THEN [value |-> value, updated_at |-> updated_at]
                              ELSE lastSet[k]]
            /\ result' = "ok"
            /\ ret' = <<>>
            /\ last' = Called("set_kv", "kv_state", [key |-> key], "written")

\* SELECT key, value, updated_at FROM kv_state WHERE key = ?
\* return rows[0] if rows else None
get_kv(key, io) ==
    /\ UNCHANGED <<bars, written, events, rules, tokens, kv, lastSet>>
    /\ IF ~io
       THEN Raise("StoreError", "get_kv", "kv_state")
       ELSE /\ \/ /\ {r \in kv : r["key"] = key} = {}
                  /\ ret' = None
               \/ \E r \in {x \in kv : x["key"] = key} : ret' = Some(r)
            /\ result' = "ok"
            /\ last' = Called("get_kv", "kv_state", [key |-> key], "read")

\* updated_at ranges over 1..MaxTime
MaxTime == 2

KvKeys == {"cursor:A", "cursor:B"}
KvValues == {"1700000000", "1700000060"}

SetKv ==
    \E key \in KvKeys, value \in KvValues, updated_at \in 1 .. MaxTime, io \in BOOLEAN :
        set_kv(key, value, updated_at, io) /\ UNCHANGED <<syncVars, lockVars>>

GetKv ==
    \E key \in KvKeys \cup {"cursor:C"}, io \in BOOLEAN :
        get_kv(key, io) /\ UNCHANGED <<syncVars, lockVars>>

NextKv == SetKv \/ GetKv

SpecKv == Init /\ [][NextKv]_vars

\* C10 Watermark last-write-wins: kv_state holds for every key exactly the
\* value and updated_at of the last successful set_kv on it (whatever the
\* order of the updated_at given) and nothing for a key never set, so a set_kv
\* leaves the other keys alone; get_kv returns that entry, or nothing.
C10_LastWriteWins ==
    /\ \A k \in DOMAIN lastSet :
          {r \in kv : r["key"] = k}
            = {[key |-> k, value |-> lastSet[k].value, updated_at |-> lastSet[k].updated_at]}
    /\ \A r \in kv : r["key"] \in DOMAIN lastSet
    /\ (last.op = "get_kv" /\ result = "ok")
        => IF last.arg["key"] \in DOMAIN lastSet
           THEN ret = Some([key |-> last.arg["key"],
                            value |-> lastSet[last.arg["key"]].value,
                            updated_at |-> lastSet[last.arg["key"]].updated_at])
           ELSE ret = None

\* a key set twice, the second time with an older updated_at, then read back,
\* while the other key keeps its entry
C10_Witness ==
    /\ last.op = "get_kv" /\ result = "ok"
    /\ last.arg["key"] = "cursor:A"
    /\ ret = Some([key |-> "cursor:A", value |-> "1700000060", updated_at |-> 1])
    /\ "cursor:B" \in DOMAIN lastSet

----------------------------------------------------------------------------
(* upsert_token(token) and list_tokens(enabled) *)

upsert_token_sql(token) == _build_upsert_sql("token_registry", token, {"id"}, {})

upsert_token(token, io) ==
    /\ UNCHANGED <<bars, written, events, rules, kv, lastSet>>
    /\ IF ~Has(token, "id")
       THEN Raise("ValueError", "upsert_token", "token_registry") /\ UNCHANGED tokens
       ELSE LET sql == upsert_token_sql(token) IN
            IF sql.kind = "ValueError"
            THEN Raise("ValueError", "upsert_token", "token_registry") /\ UNCHANGED tokens
            ELSE IF ~io \/ ViolatesSchema(sql)
            THEN Raise("StoreError", "upsert_token", "token_registry") /\ UNCHANGED tokens
            ELSE /\ tokens' = Executed(tokens, sql)
                 /\ result' = "ok"
                 /\ ret' = <<>>
                 /\ last' = Called("upsert_token", "token_registry", token,
                                   HowWritten(tokens, sql))

\* the symbols in use, in the order of the BINARY collation; NULL sorts first
Collation == <<NullStr, "A", "B", "C">>

Rank(symbol) == CHOOSE i \in DOMAIN Collation : Collation[i] = symbol

\* faulty variant: the WHERE clause is left out
Listed_unfiltered(rows, enabled) == rows

\* WHERE enabled = ? with 1 if enabled else 0, when enabled is not None
Listed(rows, enabled) ==
    IF enabled = None THEN rows
    ELSE {r \in rows : r["enabled"] = IF enabled[1] THEN 1 ELSE 0}

\* ORDER BY symbol: the rows, each once, non-decreasing in symbol; the order
\* among rows of one symbol is the engine's choice
OrderedBySymbol(rows) ==
    {s \in [1 .. Cardinality(rows) -> rows] :
        /\ \A i \in DOMAIN s : \A j \in DOMAIN s : i # j => s[i] # s[j]
        /\ \A i \in 1 .. Len(s) - 1 : Rank(s[i]["symbol"]) <= Rank(s[i + 1]["symbol"])}

list_tokens(enabled, io) ==
    /\ UNCHANGED <<bars, written, events, rules, tokens, kv, lastSet>>
    /\ IF ~io
       THEN Raise("StoreError", "list_tokens", "token_registry")
       ELSE \E s \in OrderedBySymbol(Listed(tokens, enabled)) :
                /\ ret' = s
                /\ result' = "ok"
                /\ last' = Called("list_tokens", "token_registry",
                                  [enabled |-> enabled], "read")

----------------------------------------------------------------------------
(* connectors/dex_api.py: the adapter registry and sync_registered_tokens.  *)
(* An adapter's fetch_1m_bar is the environment: it raises, or it returns a *)
(* list of raw bars.  since_ts is handed to the adapter and nothing else.   *)

\* faulty variant: _ADAPTERS.setdefault(name, adapter), the first binding stays
register_adapter_setdefault(name, given) ==
    /\ _ADAPTERS' = IF name \in DOMAIN _ADAPTERS
                    THEN _ADAPTERS
                    ELSE [n \in DOMAIN _ADAPTERS \cup {name} |->
                            IF n = name THEN given ELSE _ADAPTERS[n]]
    /\ UNCHANGED <<pc, listing, at, adapter, fetched, barAt, inserted, exc, fetchLog,
                   upserted>>
    /\ UNCHANGED <<storeVars, lockVars>>

\* _ADAPTERS[name] = adapter
register_adapter(name, given) ==
    /\ _ADAPTERS' = [n \in DOMAIN _ADAPTERS \cup {name} |->
                        IF n = name THEN given ELSE _ADAPTERS[n]]
    /\ UNCHANGED <<pc, listing, at, adapter, fetched, barAt, inserted, exc, fetchLog,
                   upserted>>
    /\ UNCHANGED <<storeVars, lockVars>>

\* adapter = _ADAPTERS.get(token["exchange"]); if not adapter: continue
Resolved(token) == token["exchange"] \in DOMAIN _ADAPTERS

\* token.get(c, default)
Get(token, c, default) == IF Has(token, c) THEN token[c] ELSE default

\* "source": "dex", "exchange": token["exchange"], "chain": token.get("chain", ""), ...
Tags(token) ==
    [source |-> "dex",
     exchange |-> token["exchange"],
     chain |-> Get(token, "chain", ""),
     symbol |-> token["symbol"],
     base |-> Get(token, "base", ""),
     quote |-> Get(token, "quote", "")]

\* faulty variant: {"source": "dex", ..., **bar}, the raw bar's keys win
Payload_raw_wins(token, bar) == Merge(Tags(token), bar)

\* payload = {**bar, "source": "dex", "exchange": ..., "chain": ..., ...}
Payload(token, bar) == Merge(bar, Tags(token))

\* raw bars of two minutes, and one that lacks its close_ts
RawBar(close_ts) == [close_ts |-> close_ts, close |-> 1]

\* a raw bar that carries tags of its own
TaggedRawBar == [close_ts |-> 0, close |-> 1, symbol |-> "Z", exchange |-> "cex"]

\* what a fetch returns: no bar, one bar with tags of its own, or two bars,
\* the second one possibly without close_ts
FetchResults ==
    {<<>>, <<TaggedRawBar>>, <<RawBar(0), RawBar(1)>>, <<RawBar(0), [close |-> 1]>>}

\* PancakeAdapter.fetch_1m_bar returns [] or one bar whose close_ts is 0; of
\* the adapters registered at run time, StubAdapter returns what it likes and
\* EmptyAdapter no bar
Returns(called) ==
    CASE called = "PancakeAdapter" -> {<<>>, <<RawBar(0)>>}
      [] called = "EmptyAdapter" -> {<<>>}
      [] OTHER -> FetchResults

\* history only
Visited(token, outcome, raw) == [token |-> token, outcome |-> outcome, bars |-> raw]

\* no cycle is under way
Idle == pc = "idle"

\* the cycle has ended: its caller holds the count or the exception
Ended == pc \in {"returned", "raised", "cancelled"}

\* tokens = list_tokens(enabled=True); inserted = 0
sync_list_tokens(io) ==
    /\ Idle
    /\ list_tokens(Some(TRUE), io)
    /\ IF result' = "ok"
       THEN listing' = ret' /\ pc' = "loop" /\ exc' = "none"
       ELSE listing' = <<>> /\ pc' = "raised" /\ exc' = result'
    /\ at' = 1
    /\ adapter' = "none"
    /\ fetched' = <<>>
    /\ barAt' = 1
    /\ inserted' = 0
    /\ fetchLog' = <<>>
    /\ upserted' = <<>>
    /\ UNCHANGED <<_ADAPTERS, registered>>
    /\ UNCHANGED lockVars

\* faulty variant: _ADAPTERS[token["exchange"]], whose KeyError leaves the cycle
sync_no_adapter_raises ==
    /\ pc = "loop"
    /\ at <= Len(listing)
    /\ ~Resolved(listing[at])
    /\ pc' = "raised"
    /\ exc' = "KeyError"
    /\ fetchLog' = Append(fetchLog, Visited(listing[at], "unresolved", <<>>))
    /\ UNCHANGED <<_ADAPTERS, registered, at, adapter, listing, fetched, barAt, inserted, upserted>>
    /\ UNCHANGED <<storeVars, lockVars>>

\* if not adapter: LOGGER.debug(...); continue
sync_no_adapter ==
    /\ pc = "loop"
    /\ at <= Len(listing)
    /\ ~Resolved(listing[at])
    /\ at' = at + 1
    /\ fetchLog' = Append(fetchLog, Visited(listing[at], "unresolved", <<>>))
    /\ UNCHANGED <<_ADAPTERS, registered, pc, listing, adapter, fetched, barAt, inserted, exc,
                   upserted>>
    /\ UNCHANGED <<storeVars, lockVars>>

\* adapter = _ADAPTERS.get(token["exchange"]); adapter.fetch_1m_bar(...) is
\* called and awaited
sync_call_adapter ==
    /\ pc = "loop"
    /\ at <= Len(listing)
    /\ Resolved(listing[at])
    /\ adapter' = _ADAPTERS[listing[at]["exchange"]]
    /\ pc' = "fetching"
    /\ UNCHANGED <<_ADAPTERS, registered, listing, at, fetched, barAt, inserted, exc, fetchLog,
                   upserted>>
    /\ UNCHANGED <<storeVars, lockVars>>

\* faulty variant: bars are persisted as they arrive, so that a bar of the
\* market is stored already when the cancellation comes
sync_cancelled_after_partial_write ==
    /\ pc = "fetching"
    /\ upsert_bar("bars_1m", Payload(listing[at], RawBar(0)), TRUE)
    /\ upserted' = Append(upserted, Payload(listing[at], RawBar(0)))
    /\ inserted' = inserted + 1
    /\ pc' = "cancelled"
    /\ exc' = "CancelledError"
    /\ fetchLog' = Append(fetchLog, Visited(listing[at], "cancelled", <<>>))
    /\ UNCHANGED <<_ADAPTERS, registered, listing, at, adapter, fetched, barAt>>
    /\ UNCHANGED lockVars

\* faulty variant: the cycle runs in one transaction, which the cancellation
\* rolls back
sync_cancelled_rolls_back ==
    /\ pc = "fetching"
    /\ pc' = "cancelled"
    /\ exc' = "CancelledError"
    /\ fetchLog' = Append(fetchLog, Visited(listing[at], "cancelled", <<>>))
    /\ bars' = [bars EXCEPT !["bars_1m"] =
                    {r \in @ : \A j \in 1 .. Len(upserted) :
                        \E c \in BarIdentity : r[c] # upserted[j][c]}]
    /\ UNCHANGED <<_ADAPTERS, registered, listing, at, adapter, fetched, barAt, inserted, upserted>>
    /\ UNCHANGED <<written, last, events, rules, tokens, kv, lastSet, result, ret>>
    /\ UNCHANGED lockVars

\* the task is cancelled while it awaits the adapter: CancelledError is no
\* Exception, `except Exception` lets it leave the coroutine
sync_cancelled ==
    /\ pc = "fetching"
    /\ pc' = "cancelled"
    /\ exc' = "CancelledError"
    /\ fetchLog' = Append(fetchLog, Visited(listing[at], "cancelled", <<>>))
    /\ UNCHANGED <<_ADAPTERS, registered, listing, at, adapter, fetched, barAt, inserted, upserted>>
    /\ UNCHANGED <<storeVars, lockVars>>

\* faulty variant: the adapter's exception is not caught
fetch_raised_propagates ==
    /\ pc' = "raised"
    /\ exc' = "ConnectorError"
    /\ at' = at

\* faulty variant: the market whose fetch raised is tried again
fetch_raised_retries ==
    /\ pc' = "loop"
    /\ at' = at
    /\ UNCHANGED exc

\* except Exception as exc: LOGGER.exception(...); continue
fetch_raised ==
    /\ pc' = "loop"
    /\ at' = at + 1
    /\ UNCHANGED exc

\* bars = await adapter.fetch_1m_bar(...), raising or returning raw
sync_fetch(raises, raw) ==
    /\ pc = "fetching"
    /\ ~raises => raw \in Returns(adapter)
    /\ IF raises
       THEN /\ fetch_raised
            /\ fetched' = <<>>
            /\ fetchLog' = Append(fetchLog, Visited(listing[at], "raised", <<>>))
       ELSE /\ fetched' = raw
            /\ fetchLog' = Append(fetchLog, Visited(listing[at], "returned", raw))
            /\ IF raw = <<>>
               THEN pc' = "loop" /\ at' = at + 1
               ELSE pc' = "bars" /\ at' = at
            /\ UNCHANGED exc
    /\ barAt' = 1
    /\ UNCHANGED <<_ADAPTERS, registered, listing, adapter, inserted, upserted>>
    /\ UNCHANGED <<storeVars, lockVars>>

\* faulty variant: the store's exception is swallowed and the next market is taken
upsert_raised_skips_market ==
    /\ pc' = "loop"
    /\ at' = at + 1
    /\ barAt' = 1
    /\ UNCHANGED <<inserted, exc, upserted>>

\* upsert_bar is called outside the try: its exception leaves the coroutine
upsert_raised ==
    /\ pc' = "raised"
    /\ exc' = result'
    /\ UNCHANGED <<at, barAt, inserted, upserted>>

\* upsert_bar("bars_1m", payload); inserted += 1
sync_upsert(io) ==
    /\ pc = "bars"
    /\ upsert_bar("bars_1m", Payload(listing[at], fetched[barAt]), io)
    /\ IF result' = "ok"
       THEN /\ inserted' = inserted + 1
            /\ upserted' = Append(upserted, Payload(listing[at], fetched[barAt]))
            /\ IF barAt < Len(fetched)
               THEN barAt' = barAt + 1 /\ at' = at /\ pc' = "bars"
               ELSE barAt' = 1 /\ at' = at + 1 /\ pc' = "loop"
            /\ UNCHANGED exc
       ELSE upsert_raised
    /\ UNCHANGED <<_ADAPTERS, registered, listing, adapter, fetched, fetchLog>>
    /\ UNCHANGED lockVars

\* return inserted
sync_return ==
    /\ pc = "loop"
    /\ at > Len(listing)
    /\ pc' = "returned"
    /\ UNCHANGED <<_ADAPTERS, registered, listing, at, adapter, fetched, barAt, inserted, exc, fetchLog,
                   upserted>>
    /\ UNCHANGED <<storeVars, lockVars>>

\* the coroutine is over and its frame is gone
sync_over ==
    /\ Ended
    /\ pc' = "idle"
    /\ listing' = <<>>
    /\ at' = 1
    /\ adapter' = "none"
    /\ fetched' = <<>>
    /\ barAt' = 1
    /\ inserted' = 0
    /\ exc' = "none"
    /\ fetchLog' = <<>>
    /\ upserted' = <<>>
    /\ UNCHANGED <<_ADAPTERS, registered>>
    /\ UNCHANGED <<storeVars, lockVars>>

----------------------------------------------------------------------------
(* Specification of the ingestion cycle.  Between cycles, and while a cycle  *)
(* awaits an adapter, other callers change the registry of markets and the  *)
(* registry of adapters.                                                    *)

\* three markets listed in the order A, B, C; B comes enabled or disabled,
\* A and C trade on an exchange that has no adapter until one is registered
Market(id, symbol, exchange, enabled) ==
    [id |-> id, symbol |-> symbol, exchange |-> exchange, chain |-> "bsc",
     enabled |-> enabled]

TokenPayloads ==
    {Market("t1", "A", "uni", 1),
     Market("t2", "B", "pancake", 1),
     Market("t2", "B", "pancake", 0),
     Market("t3", "C", "uni", 1),
     [symbol |-> "A"]}

\* between cycles any of the markets is registered; while a cycle awaits an
\* adapter, market B is disabled
UpsertToken ==
    /\ \E token \in TokenPayloads :
          /\ Idle \/ (pc = "fetching" /\ token = Market("t2", "B", "pancake", 0))
          /\ upsert_token(token, TRUE)
    /\ UNCHANGED <<syncVars, lockVars>>

\* the register_adapter calls: a stub for uni or pancake, and an adapter that
\* returns nothing for uni
Registrations ==
    {<<"uni", "StubAdapter">>, <<"uni", "EmptyAdapter">>, <<"pancake", "StubAdapter">>}

\* between cycles any of the registrations is made; while a cycle awaits an
\* adapter, the one for pancake
RegisterAdapter ==
    \E call \in Registrations :
        /\ Idle \/ (pc = "fetching" /\ call[1] = "pancake")
        /\ register_adapter(call[1], call[2])
        /\ registered' = [n \in DOMAIN registered \cup {call[1]} |->
                              IF n = call[1] THEN call[2] ELSE registered[n]]

SyncListTokens == \E io \in BOOLEAN : sync_list_tokens(io)

SyncFetch ==
    \/ sync_fetch(TRUE, <<>>)
    \/ \E raw \in FetchResults : sync_fetch(FALSE, raw)

SyncUpsert == \E io \in BOOLEAN : sync_upsert(io)

NextSync ==
    \/ UpsertToken
    \/ RegisterAdapter
    \/ SyncListTokens
    \/ sync_no_adapter
    \/ sync_call_adapter
    \/ sync_cancelled
    \/ SyncFetch
    \/ SyncUpsert
    \/ sync_return
    \/ sync_over

SpecSync == Init /\ [][NextSync]_vars

----------------------------------------------------------------------------
(* Claims on the ingestion cycle *)

RECURSIVE TotalBars(_)
\* the number of bars returned by the fetches of the cycle that succeeded
TotalBars(log) ==
    IF log = <<>> THEN 0
    ELSE (IF Head(log).outcome = "returned" THEN Len(Head(log).bars) ELSE 0)
            + TotalBars(Tail(log))

RECURSIVE Due(_)
\* the records due for the bars returned by the fetches that succeeded
Due(log) ==
    IF log = <<>> THEN <<>>
    ELSE [i \in 1 .. Len(Head(log).bars) |-> Payload(Head(log).token, Head(log).bars[i])]
            \o Due(Tail(log))

\* C4 Per-market isolation: a cycle raises only out of a store call (the
\* listing or an upsert_bar), never because an adapter raised; a cycle that
\* has returned has visited every listed market in listing order, has
\* upserted, in order, every bar returned by the fetches that succeeded, those
\* before and those after a fetch that raised, each of them being stored in
\* bars_1m, and returns the number of these bars: a market whose fetch raised
\* contributes nothing.
C4_PerMarketIsolation ==
    /\ pc = "raised" <=> exc \in {"StoreError", "ValueError"}
    /\ pc = "cancelled" <=> exc = "CancelledError"
    /\ pc \notin {"raised", "cancelled"} => exc = "none"
    /\ pc = "returned" =>
        /\ [i \in 1 .. Len(fetchLog) |-> fetchLog[i].token] = listing
        /\ upserted = Due(fetchLog)
        /\ inserted = TotalBars(fetchLog)
        /\ \A i \in 1 .. Len(upserted) :
              \E r \in bars["bars_1m"] :
                  \A c \in DOMAIN upserted[i] : r[c] = upserted[i][c]

\* three markets, the second one's fetch raises, the first returns two bars
\* and the third one bar: the cycle returns 3
C4_Witness ==
    /\ pc = "returned"
    /\ Len(fetchLog) = 3
    /\ fetchLog[1].outcome = "returned" /\ Len(fetchLog[1].bars) = 2
    /\ fetchLog[2].outcome = "raised"
    /\ fetchLog[3].outcome = "returned" /\ Len(fetchLog[3].bars) = 1
    /\ inserted = 3
    /\ Cardinality(bars["bars_1m"]) = 3

\* C5 Store errors abort the cycle: when an upsert_bar of the cycle fails, the
\* cycle is left by the exception at once, with no bar stored or counted by
\* that call; from then on the cycle returns nothing and visits no further bar
\* and no further market: the bar store, the count and the cycle's position
\* stay as they are until another cycle is started (which is when the log of
\* the markets visited is cleared).
C5_StoreErrorsAbort ==
    [][/\ (pc = "bars" /\ result' # "ok")
            => (pc' = "raised" /\ exc' = result'
                    /\ UNCHANGED <<bars, inserted, upserted, at, barAt, fetchLog>>)
       /\ (pc = "raised" /\ fetchLog # <<>> /\ fetchLog' # <<>>)
            => (pc' = "raised"
                    /\ UNCHANGED <<bars, inserted, exc, upserted, at, barAt, fetchLog, listing>>)
      ]_vars

\* the second bar of the first market is refused by the store after the first
\* one was upserted, and another market is still to come
C5_Witness ==
    /\ pc = "raised"
    /\ exc = "StoreError"
    /\ last.op = "upsert_bar"
    /\ barAt = 2
    /\ Len(upserted) = 1
    /\ at < Len(listing)

\* C12 Unresolved connector is a skip: when the market at hand trades on an
\* exchange with no entry in the adapter registry, the cycle's next step takes
\* the next market and nothing else: no exception, no fetch (the market is
\* logged as unresolved, with no bars), no store call, the count as it was.
C12_UnresolvedIsSkipped ==
    [][(pc = "loop" /\ at <= Len(listing)
            /\ listing[at]["exchange"] \notin DOMAIN _ADAPTERS)
        => /\ pc' = "loop" /\ at' = at + 1
           /\ exc' = "none"
           /\ fetchLog' = Append(fetchLog, Visited(listing[at], "unresolved", <<>>))
           /\ UNCHANGED <<inserted, upserted, fetched, listing, _ADAPTERS>>
           /\ UNCHANGED storeVars
      ]_vars

\* a cycle has returned 1: its first market was unresolved and its second
\* market gave one bar
C12_Witness ==
    /\ pc = "returned"
    /\ Len(fetchLog) >= 2
    /\ fetchLog[1].outcome = "unresolved"
    /\ fetchLog[2].outcome = "returned" /\ Len(fetchLog[2].bars) = 1
    /\ inserted = 1
    /\ \A r \in bars["bars_1m"] : r["symbol"] # fetchLog[1].token["symbol"]

TagColumns == {"source", "exchange", "chain", "symbol", "base", "quote"}

\* C16 Identity tags come from the market: the record of every upsert_bar of a
\* cycle has source "dex" and the exchange, chain, symbol, base and quote of
\* the market at hand, whatever the raw bar carries in these fields, and holds
\* every other field of the raw bar unchanged, and no further field.
C16_TagsFromMarket ==
    [][(pc = "bars" /\ result' = "ok")
        => /\ last'.op = "upsert_bar" /\ last'.table = "bars_1m"
           /\ upserted' = Append(upserted, last'.arg)
           /\ last'.arg["source"] = "dex"
           /\ \A c \in TagColumns \ {"source"} : last'.arg[c] = listing[at][c]
           /\ DOMAIN last'.arg = DOMAIN fetched[barAt] \cup TagColumns
           /\ \A c \in DOMAIN fetched[barAt] \ TagColumns :
                 last'.arg[c] = fetched[barAt][c]
      ]_vars

\* a raw bar tagged symbol Z, exchange cex has been upserted under the
\* market's own symbol and exchange
C16_Witness ==
    /\ last.op = "upsert_bar" /\ result = "ok"
    /\ fetched = <<TaggedRawBar>>
    /\ upserted # <<>>
    /\ upserted[Len(upserted)]["symbol"] \in {"A", "B", "C"}
    /\ upserted[Len(upserted)]["exchange"] \in {"uni", "pancake"}
    /\ \A r \in bars["bars_1m"] : r["symbol"] # "Z" /\ r["exchange"] # "cex"

\* C17 Only enabled markets are polled: the listing a cycle starts with holds
\* exactly the markets enabled in the registry at that moment, each once, in
\* ascending symbol order, and stays as it is until the cycle ends; the markets
\* the cycle visits are the first ones of that listing, in its order, and
\* every record it upserts carries the symbol and exchange of a visited market
\* whose fetch returned: a market that is not enabled is neither fetched nor
\* written.
C17_OnlyEnabledPolled ==
    [][/\ (Idle /\ pc' = "loop")
            => /\ Range(listing') = {r \in tokens : r["enabled"] = 1}
               /\ Len(listing') = Cardinality(Range(listing'))
               /\ \A i \in 1 .. Len(listing') - 1 :
                     Rank(listing'[i]["symbol"]) <= Rank(listing'[i + 1]["symbol"])
       /\ (~Idle /\ ~Ended) => listing' = listing
       /\ Len(fetchLog') <= Len(listing')
       /\ \A i \in 1 .. Len(fetchLog') : fetchLog'[i].token = listing'[i]
       /\ \A j \in 1 .. Len(upserted') :
             \E i \in 1 .. Len(fetchLog') :
                 /\ fetchLog'[i].outcome = "returned"
                 /\ fetchLog'[i].token["enabled"] = 1
                 /\ upserted'[j]["symbol"] = fetchLog'[i].token["symbol"]
                 /\ upserted'[j]["exchange"] = fetchLog'[i].token["exchange"]
      ]_vars

\* a cycle has returned after polling A and C and writing their bars, while
\* the registry holds B disabled
C17_Witness ==
    /\ pc = "returned"
    /\ \E r \in tokens : r["symbol"] = "B" /\ r["enabled"] = 0
    /\ Len(listing) = 2
    /\ Len(fetchLog) = 2
    /\ fetchLog[1].token["symbol"] = "A" /\ fetchLog[1].outcome = "returned"
    /\ fetchLog[2].token["symbol"] = "C" /\ fetchLog[2].outcome = "returned"
    /\ inserted >= 2
    /\ \A r \in bars["bars_1m"] : r["symbol"] # "B"

\* the adapter a name is bound to by the calls made so far
Bound(name) ==
    IF name \in DOMAIN registered THEN registered[name] ELSE "PancakeAdapter"

\* C13 Registry overwrite: the registry binds every name to the adapter given
\* by the most recent register_adapter call on it, the built-in binding of
\* pancake included, and binds pancake to PancakeAdapter and no other name
\* while no call was made on it; a cycle that comes to a market whose exchange
\* is bound calls the adapter bound at that moment, and what the fetch returns
\* is what that adapter returns.
C13_RegistryOverwrite ==
    [][/\ DOMAIN _ADAPTERS' = {"pancake"} \cup DOMAIN registered'
       /\ \A n \in DOMAIN _ADAPTERS' :
             _ADAPTERS'[n] = IF n \in DOMAIN registered' THEN registered'[n]
                             ELSE "PancakeAdapter"
       /\ (pc = "loop" /\ at <= Len(listing)
                /\ listing[at]["exchange"] \in {"pancake"} \cup DOMAIN registered)
            => (pc' = "fetching" /\ adapter' = Bound(listing[at]["exchange"]))
       /\ (pc = "fetching" /\ pc' = "bars") => fetched' \in Returns(adapter)
      ]_vars

\* uni, once bound to an adapter that gave a bar of A, is bound to
\* EmptyAdapter; pancake is bound to StubAdapter, through which the cycle has
\* fetched two bars of B
C13_Witness ==
    /\ pc = "bars"
    /\ listing[at]["exchange"] = "pancake"
    /\ adapter = "StubAdapter"
    /\ Len(fetched) = 2
    /\ _ADAPTERS["pancake"] = "StubAdapter"
    /\ "uni" \in DOMAIN _ADAPTERS /\ _ADAPTERS["uni"] = "EmptyAdapter"
    /\ \E r \in bars["bars_1m"] : r["exchange"] = "uni"

\* the records upserted so far in the cycle for a market
UpsertedFor(token) ==
    {j \in 1 .. Len(upserted) :
        /\ upserted[j]["symbol"] = token["symbol"]
        /\ upserted[j]["exchange"] = token["exchange"]}

\* no record of a market is upserted while its fetch is awaited, nor ever in
\* the cycle when its fetch raised or was cancelled
NothingBeforeFetched ==
    /\ pc = "fetching" => UpsertedFor(listing[at]) = {}
    /\ \A i \in 1 .. Len(fetchLog) :
          fetchLog[i].outcome \in {"raised", "cancelled"}
          => UpsertedFor(fetchLog[i].token) = {}

\* C14 Fetch-before-persist: a cycle writes a bar only when the fetch of the
\* market at hand has returned, the bar being one of those it returned; while
\* a market's fetch is awaited no record of that market has been upserted by
\* the cycle, and none ever is for a market whose fetch raised or was
\* cancelled; the step that ends a fetch writes nothing.
C14_FetchBeforePersist ==
    [][/\ (bars' # bars \/ Len(upserted') > Len(upserted))
            => /\ pc = "bars"
               /\ fetchLog # <<>>
               /\ fetchLog[Len(fetchLog)] = Visited(listing[at], "returned", fetched)
               /\ upserted' = Append(upserted, Payload(listing[at], fetched[barAt]))
       /\ NothingBeforeFetched'
       /\ pc = "fetching" => bars' = bars
      ]_vars

\* the cycle was cancelled while it awaited the second market: the first
\* market's two bars are stored and none of the second market
C14_Witness ==
    /\ pc = "cancelled"
    /\ at = 2
    /\ Len(fetchLog) = 2
    /\ fetchLog[1].outcome = "returned"
    /\ fetchLog[2].outcome = "cancelled"
    /\ Len(upserted) = 2
    /\ UpsertedFor(listing[1]) = {1, 2}
    /\ UpsertedFor(listing[2]) = {}
    /\ \A r \in bars["bars_1m"] : r["symbol"] # listing[2]["symbol"]

\* the record is in bars_1m: a row holds what the record gave
Persisted(record) ==
    \E r \in bars["bars_1m"] :
        \A c \in DOMAIN record \cap BarColumns : r[c] = record[c]

\* every bar the cycle has upserted so far is in the store
AllPersisted == \A j \in 1 .. Len(upserted) : Persisted(upserted[j])

\* C19 No rollback across calls: every bar the cycle has upserted is in the
\* store, while the cycle runs and when it has ended, by a store error or a
\* cancellation as well as by its return; the step that aborts the cycle
\* leaves the bars as they were.
C19_NoRollback ==
    [][/\ AllPersisted'
       /\ (pc' \in {"raised", "cancelled"} /\ pc \notin {"raised", "cancelled"})
            => bars' = bars
      ]_vars

\* the cycle is aborted by a store error at the second bar of its second
\* market: the bar of the first market and the first bar of the second are
\* stored
C19_Witness ==
    /\ pc = "raised"
    /\ exc \in {"StoreError", "ValueError"}
    /\ at = 2
    /\ barAt = 2
    /\ Len(upserted) = 2
    /\ UpsertedFor(listing[1]) = {1}
    /\ UpsertedFor(listing[2]) = {2}
    /\ AllPersisted

\* a step of the coroutine once it runs: the event loop resumes it, and the
\* fetch it awaits returns or raises
CycleStep ==
    \/ sync_no_adapter
    \/ sync_call_adapter
    \/ SyncFetch
    \/ SyncUpsert
    \/ sync_return

SpecSyncFair == SpecSync /\ WF_vars(CycleStep)

\* the cycle runs: it has its listing and has neither returned nor raised
Running == pc \in {"loop", "fetching", "bars"}

\* no market is fetched twice in a cycle
NoRetry ==
    \A i, j \in 1 .. Len(fetchLog) :
        fetchLog[i].token = fetchLog[j].token => i = j

\* how the cycle has ended: with a count and no exception, with the store's
\* error, or cancelled from outside
EndsAsSpecified ==
    /\ pc = "returned" => inserted \in Nat /\ exc = "none"
    /\ pc = "raised" => exc = "StoreError"
    /\ pc = "cancelled" => exc = "CancelledError"

\* C18 Cycle termination: a running cycle ends, it ends by returning its
\* count unless the store raised (or the task was cancelled), a market is
\* fetched at most once in a cycle and the cycle never goes back to a market.
C18_CycleTerminates ==
    /\ Running ~> Ended
    /\ [][/\ NoRetry'
          /\ EndsAsSpecified'
          /\ Running /\ Running' => at' >= at
         ]_vars

\* a cycle over two markets has returned its count although the fetch of the
\* first market raised
C18_Witness ==
    /\ pc = "returned"
    /\ Len(listing) = 2
    /\ at = 3
    /\ Len(fetchLog) = 2
    /\ fetchLog[1].outcome = "raised"
    /\ fetchLog[2].outcome = "returned"
    /\ inserted = Len(upserted)
    /\ inserted >= 1

----------------------------------------------------------------------------
(* Concurrent callers of the store.  Every operation runs its statement in  *)
(*     with _connection_lock:                                               *)
(*         with _connect() as conn:                                         *)
(*             conn.execute(...); conn.commit()                             *)
(* upsert_bar inline, the others through _execute and _query.  Leaving      *)
(* `with conn` commits, or rolls back when an exception passes through; it  *)
(* does not close the connection (sqlite3.Connection.__exit__), and no      *)
(* operation calls conn.close().  The connection is closed when the object  *)
(* is deallocated: at the return of the function where references are       *)
(* counted, at some later collection otherwise; an exception that leaves    *)
(* the function keeps the frame, and the connection with it, alive in its   *)
(* traceback.                                                               *)

\* the operations the callers run: two upserts of one bar, an upsert into a
\* table that is not allowed, and a query
LockCalls ==
    {Operation("upsert_bar", "bars_1m", Merge(FirstId, [close |-> 1])),
     Operation("upsert_bar", "bars_1m", Merge(FirstId, [close |-> 2, bid |-> 5])),
     Operation("upsert_bar", "bars_1h", Merge(FirstId, [close |-> 1])),
     Operation("fetch_bars", "bars_1m", [symbol |-> "A", since_ts |-> None, limit |-> None])}

\* the checks made before `with _connection_lock` is reached
Rejected(operation) ==
    IF operation.op = "upsert_bar"
    THEN \/ Unsupported(operation.table)
         \/ DOMAIN operation.arg = {}
         \/ upsert_bar_sql(operation.table, operation.arg).kind = "ValueError"
    ELSE Unsupported(operation.table)

\* the operation's effect on the store and what it gives its caller
Run(operation, io) ==
    IF operation.op = "upsert_bar"
    THEN upsert_bar(operation.table, operation.arg, io)
    ELSE fetch_bars(operation.table, operation.arg.symbol, operation.arg.since_ts,
                    operation.arg.limit, io)

\* conn.execute raises: the I/O fails or the schema refuses the statement
ExecuteRaises(operation, io) ==
    \/ ~io
    \/ IF operation.op = "upsert_bar"
       THEN ViolatesSchema(upsert_bar_sql(operation.table, operation.arg))
       ELSE operation.table \notin ExistingTables

\* the caller is inside `with _connection_lock`
InRegion(caller) == threadPc[caller] \in {"connecting", "executing", "committing"}

\* both `with` blocks are left and the function returns or raises: the lock
\* is released, the connection is left as `left`
Leave(caller, left) ==
    /\ _connection_lock' = "free"
    /\ threadPc' = [threadPc EXCEPT ![caller] = "done"]
    /\ threadExc' = [threadExc EXCEPT ![caller] = result']
    /\ conn' = [conn EXCEPT ![caller] = left]

\* the function is entered; a failed check raises ValueError at once
store_call(caller, operation) ==
    /\ threadPc[caller] \in {"idle", "done"}
    /\ operation.op = "upsert_bar" => Room(operation.table, operation.arg)
    /\ threadOp' = [threadOp EXCEPT ![caller] = operation]
    /\ conn' = [conn EXCEPT ![caller] = "none"]
    /\ IF Rejected(operation)
       THEN /\ Run(operation, TRUE)
            /\ threadPc' = [threadPc EXCEPT ![caller] = "done"]
            /\ threadExc' = [threadExc EXCEPT ![caller] = result']
       ELSE /\ UNCHANGED storeVars
            /\ threadPc' = [threadPc EXCEPT ![caller] = "acquiring"]
            /\ threadExc' = [threadExc EXCEPT ![caller] = "none"]
    /\ UNCHANGED <<_connection_lock, syncVars>>

\* faulty variant: the lock is taken without waiting for it to be free
acquire_without_waiting(caller) ==
    /\ threadPc[caller] = "acquiring"
    /\ _connection_lock' = caller
    /\ threadPc' = [threadPc EXCEPT ![caller] = "connecting"]
    /\ UNCHANGED <<threadOp, threadExc, conn, storeVars, syncVars>>

\* with _connection_lock: blocks until the lock is free
acquire(caller) ==
    /\ threadPc[caller] = "acquiring"
    /\ _connection_lock = "free"
    /\ _connection_lock' = caller
    /\ threadPc' = [threadPc EXCEPT ![caller] = "connecting"]
    /\ UNCHANGED <<threadOp, threadExc, conn, storeVars, syncVars>>

\* _connect(): sqlite3.connect opens the file or raises
connect(caller, io) ==
    /\ threadPc[caller] = "connecting"
    /\ IF io
       THEN /\ conn' = [conn EXCEPT ![caller] = "open"]
            /\ threadPc' = [threadPc EXCEPT ![caller] = "executing"]
            /\ UNCHANGED <<_connection_lock, threadExc, storeVars>>
       ELSE /\ Run(threadOp[caller], FALSE)
            /\ Leave(caller, "none")
    /\ UNCHANGED <<threadOp, syncVars>>

\* conn.execute(sql, params): a write is pending in the connection's
\* transaction; a query is answered (cursor.fetchall()) and the blocks left
execute(caller, io, left) ==
    /\ threadPc[caller] = "executing"
    /\ IF ExecuteRaises(threadOp[caller], io)
       THEN /\ Run(threadOp[caller], io)
            /\ Leave(caller, "open")
       ELSE IF threadOp[caller].op = "fetch_bars"
       THEN /\ Run(threadOp[caller], TRUE)
            /\ Leave(caller, left)
       ELSE /\ threadPc' = [threadPc EXCEPT ![caller] = "committing"]
            /\ UNCHANGED <<_connection_lock, threadExc, conn, storeVars>>
    /\ UNCHANGED <<threadOp, syncVars>>

\* conn.commit(), and the blocks are left
commit(caller, io, left) ==
    /\ threadPc[caller] = "committing"
    /\ Run(threadOp[caller], io)
    /\ Leave(caller, IF io THEN left ELSE "open")
    /\ UNCHANGED <<threadOp, syncVars>>

\* the connection object of an operation that is over is deallocated
collect(caller) ==
    /\ threadPc[caller] = "done"
    /\ conn[caller] = "open"
    /\ conn' = [conn EXCEPT ![caller] = "closed"]
    /\ UNCHANGED <<_connection_lock, threadPc, threadOp, threadExc, storeVars, syncVars>>

\* what becomes of the connection when the function returns
LeftAs == {"open", "closed"}

StoreCall == \E caller \in Callers, operation \in LockCalls : store_call(caller, operation)
Acquire == \E caller \in Callers : acquire(caller)
Connect == \E caller \in Callers, io \in BOOLEAN : connect(caller, io)
Execute == \E caller \in Callers, io \in BOOLEAN, left \in LeftAs : execute(caller, io, left)
Commit == \E caller \in Callers, io \in BOOLEAN, left \in LeftAs : commit(caller, io, left)
Collect == \E caller \in Callers : collect(caller)

NextLock == StoreCall \/ Acquire \/ Connect \/ Execute \/ Commit \/ Collect

SpecLock == Init /\ [][NextLock]_vars

\* at most one caller is inside the region, and it is the holder of the lock
OneInRegion ==
    /\ \A a, b \in Callers : InRegion(a) /\ InRegion(b) => a = b
    /\ \A a \in Callers : InRegion(a) <=> _connection_lock = a

\* C11 Store mutual exclusion: at most one caller at a time is between the
\* acquisition of the lock and its release; the bars change only by the
\* commit of the caller that holds the lock; while a caller's write is
\* pending no other caller's statement runs, and a query is answered only
\* while no write of another caller is pending.
C11_MutualExclusion ==
    [][/\ OneInRegion'
       /\ bars' # bars
            => \E a \in Callers :
                  /\ _connection_lock = a
                  /\ threadPc[a] = "committing"
                  /\ threadPc'[a] = "done"
       /\ \A a, b \in Callers :
             (a # b /\ threadPc[a] = "committing")
             => /\ threadPc[b] \in {"acquiring", "connecting", "executing", "committing"}
                     => threadPc'[b] = threadPc[b]
                /\ threadPc'[b] \notin {"connecting", "executing", "committing"}
      ]_vars

\* a caller waits for the lock with a query while the other caller's upsert
\* is executed and not yet committed
C11_Witness ==
    /\ threadPc["c1"] = "committing"
    /\ threadOp["c1"].op = "upsert_bar"
    /\ _connection_lock = "c1"
    /\ threadPc["c2"] = "acquiring"
    /\ threadOp["c2"].op = "fetch_bars"
    /\ bars["bars_1m"] # {}

\* C15 Scoped release: an operation that has ended, by its return, by a
\* failed check or by a store error, holds neither the lock nor an open
\* connection.
C15_ScopedRelease ==
    \A caller \in Callers :
        threadPc[caller] = "done"
        => /\ _connection_lock # caller
           /\ conn[caller] # "open"

====
